---- MODULE Spec2Model ----
(***************************************************************************)
(* A model of src/index.js: the Playwright engine's scenario function, its *)
(* page event handlers and the metrics they emit.                          *)
(*                                                                         *)
(* JavaScript strings are sequences of tokens (single characters for the   *)
(* variable parts, one token for each fixed literal), so that `+` and      *)
(* template literals are sequence concatenation and startsWith is the      *)
(* prefix test.  JavaScript values are tagged records.                     *)
(***************************************************************************)
EXTENDS Integers, Sequences, FiniteSets

\* ------------------------------------------------------------ bounds

\* Page events (domcontentloaded, console, load, pageerror, requestfinished)
\* delivered in one session.
MaxEvents == 2

\* ------------------------------------------------------------ JS values

Undef == [undef |-> TRUE]
NaN == [nan |-> TRUE]
Str(s) == [str |-> s]

\* Numbers are IEEE-754 doubles.  One that is an integer is [int |-> n]; any
\* other is its 53-bit significand (most significant bit first) and its
\* exponent: [m |-> bits, e |-> e] stands for bits * 2^e.
Num(n) == [int |-> n]
Dbl(m, e) == [m |-> m, e |-> e]

IsNum(v) == DOMAIN v = {"int"}
IsStr(v) == DOMAIN v = {"str"}

SignificandBits == 53

RECURSIVE Bits(_)
Bits(n) == IF n < 2 THEN <<n>> ELSE Append(Bits(n \div 2), n % 2)

RECURSIVE FromBits(_)
FromBits(b) ==
  IF b = <<>> THEN 0 ELSE 2 * FromBits(SubSeq(b, 1, Len(b) - 1)) + b[Len(b)]

Zeros(n) == [i \in 1..n |-> 0]

\* bits without its leading zeros
StripZeros(b) ==
  IF \A i \in 1..Len(b) : b[i] = 0 THEN <<>>
  ELSE LET first == CHOOSE i \in 1..Len(b) : b[i] = 1 /\ \A j \in 1..(i - 1) : b[j] = 0
       IN  SubSeq(b, first, Len(b))

\* bits + 1
Increment(b) ==
  IF \A i \in 1..Len(b) : b[i] = 1 THEN <<1>> \o Zeros(Len(b))
  ELSE LET zero == CHOOSE i \in 1..Len(b) : b[i] = 0 /\ \A j \in (i + 1)..Len(b) : b[j] = 1
       IN  SubSeq(b, 1, zero - 1) \o <<1>> \o Zeros(Len(b) - zero)

\* bits lo..hi of b divided by k, bit by bit, with r carried in: the quotient
\* bits q and the remainder r
RECURSIVE LongDivision(_, _, _, _, _)
LongDivision(b, k, lo, hi, r) ==
  IF lo = hi
  THEN LET t == 2 * r + b[lo] IN
         IF t >= k THEN [q |-> <<1>>, r |-> t - k] ELSE [q |-> <<0>>, r |-> t]
  ELSE LET mid == (lo + hi) \div 2
           left == LongDivision(b, k, lo, mid, r)
           right == LongDivision(b, k, mid + 1, hi, left.r)
       IN  [q |-> left.q \o right.q, r |-> right.r]

\* the double with significand m and exponent e, an integer where it is one
Canonical(m, e) ==
  IF /\ e < 0
     /\ -e < SignificandBits
     /\ SignificandBits + e <= 31
     /\ \A i \in (SignificandBits + e + 1)..SignificandBits : m[i] = 0
  THEN Num(FromBits(SubSeq(m, 1, SignificandBits + e)))
  ELSE Dbl(m, e)

\* x / k in double arithmetic, for a number x >= 0 and an integer k > 0: the
\* quotient rounded to 53 bits, ties to even; undefined / k is NaN.
JsDiv(x, k) ==
  IF x = Num(0) THEN Num(0)
  ELSE IF ~(IsNum(x) \/ DOMAIN x = {"m", "e"}) THEN NaN
  ELSE
    LET b == IF IsNum(x) THEN Bits(x.int) ELSE x.m
        e == IF IsNum(x) THEN 0 ELSE x.e
        z == SignificandBits + 2 + Len(Bits(k))
        d == LongDivision(b \o Zeros(z), k, 1, Len(b) + z, 0)
        q == StripZeros(d.q)
        m0 == SubSeq(q, 1, SignificandBits)
        guard == q[SignificandBits + 1]
        sticky == d.r # 0 \/ \E i \in (SignificandBits + 2)..Len(q) : q[i] = 1
        up == guard = 1 /\ (sticky \/ m0[SignificandBits] = 1)
        m1 == IF up THEN Increment(m0) ELSE m0
        ex == e - z + Len(q) - SignificandBits
    IN  IF Len(m1) > SignificandBits
        THEN Canonical(SubSeq(m1, 1, SignificandBits), ex + 1)
        ELSE Canonical(m1, ex)

\* a - b on integers; NaN when an operand is undefined.
JsMinus(a, b) == IF IsNum(a) /\ IsNum(b) THEN Num(a.int - b.int) ELSE NaN

Digit(i) == <<"0", "1", "2", "3", "4", "5", "6", "7", "8", "9">>[i + 1]

RECURSIVE Decimal(_)
Decimal(n) == IF n < 10 THEN <<Digit(n)>> ELSE Decimal(n \div 10) \o <<Digit(n % 10)>>

\* String(v) as `+` and template literals apply it.
JsString(v) ==
  IF IsStr(v) THEN v.str
  ELSE IF IsNum(v) /\ v.int >= 0 THEN Decimal(v.int)
  ELSE IF v = Undef THEN <<"undefined">>
  ELSE <<"NaN">>

\* s.startsWith(p)
StartsWith(s, p) == Len(p) <= Len(s) /\ SubSeq(s, 1, Len(p)) = p

\* obj.f : undefined when the property is absent.
Get(obj, f) == IF f \in DOMAIN obj THEN obj[f] ELSE Undef

\* ------------------------------------------------------------ inputs

\* The target origin, a page of it and a page that is not of it.
Target == <<"t", "1">>
Urls == { <<"t", "1">>, <<"t">> }
ScenarioName == <<"n">>


JsTrue == [bool |-> TRUE]
JsFalse == [bool |-> FALSE]

\* script.config.engines.playwright as the constructor reads it
Script(aggregateByName, extendedMetrics, showAllPageMetrics) ==
  [ aggregateByName |-> aggregateByName,
    extendedMetrics |-> extendedMetrics,
    showAllPageMetrics |-> showAllPageMetrics ]

\* The engines and scenarios the sessions are run from: a script's engine
\* options and the scenario's name.
Setups ==
  { [script |-> Script(Undef, Undef, Undef), name |-> Undef],
    [script |-> Script(JsTrue, Undef, Undef), name |-> Str(ScenarioName)],
    [script |-> Script(JsTrue, Undef, Undef), name |-> Undef],
    [script |-> Script(Undef, Undef, JsTrue), name |-> Undef],
    [script |-> Script(Undef, JsFalse, Undef), name |-> Str(ScenarioName)],
    [script |-> Script(Undef, JsTrue, Undef), name |-> Undef],
    [script |-> Script(JsTrue, JsTrue, JsTrue), name |-> Str(ScenarioName)] }

\* JSON texts: a text that does not parse, or the text of an object.
BadJson == [bad |-> TRUE]
JsonOf(obj) == [obj |-> obj]

\* What `await pageParameter.evaluate(...)` can do: reject, or resolve to a text.
Rejects == [rejects |-> TRUE]
Resolves(text) == [text |-> text]

TimingA == [navigationStart |-> Num(100), connectStart |-> Num(2), domInteractive |-> Num(180)]
TimingB == [navigationStart |-> Num(100), connectStart |-> Num(12), domInteractive |-> Num(150)]
TimingNoInteractive == [navigationStart |-> Num(100), connectStart |-> Num(2)]
TimingResults ==
  {Rejects, Resolves(BadJson)} \cup
  {Resolves(JsonOf(t)) : t \in {TimingA, TimingB, TimingNoInteractive}}

HeapSizes == {52000000, 52000004}
HeapResults ==
  {Rejects, Resolves(BadJson), Resolves(JsonOf([other |-> Num(1)]))} \cup
  {Resolves(JsonOf([usedJSHeapSize |-> Num(b)])) : b \in HeapSizes}

MetricName == <<"L">>
FullReports == {[name |-> Str(MetricName), value |-> Num(7), url |-> Str(u)] : u \in Urls}
PartialReports ==
  { [value |-> Num(7), url |-> Str(Target)],
    [name |-> Str(MetricName), url |-> Str(Target)],
    [name |-> Str(MetricName), value |-> Num(7)] }
ConsoleMessages ==
  {[type |-> "trace", text |-> JsonOf(r)] : r \in FullReports \cup PartialReports} \cup
  {[type |-> "trace", text |-> BadJson]} \cup
  {[type |-> "log", text |-> JsonOf([name |-> Str(MetricName), value |-> Num(7), url |-> Str(Target)])]}

\* ------------------------------------------------------------ engine

\* constructor: the engine's fields (lines 19-36)
PlaywrightEngine(script) ==
  [ target |-> Target,
    aggregateByName |-> (script.aggregateByName = JsTrue),
    extendedMetrics |-> (script.extendedMetrics # Undef),
    showAllPageMetrics |-> (script.showAllPageMetrics # Undef) ]

\* createScenario: the closure's copies of the engine's fields, and spec.name
createScenario(engine, name) ==
  [ aggregateByNameInScenario |-> engine.aggregateByName,
    extendedMetricsInScenario |-> engine.extendedMetrics,
    targetInScenario |-> engine.target,
    showAllPageMetricsInScenario |-> engine.showAllPageMetrics,
    name |-> name ]

\* `||` for `&&`
getNameOr(sc, url) ==
  IF sc.aggregateByNameInScenario \/ IsStr(sc.name) THEN JsString(sc.name) ELSE url

\* getName(url): aggregateByNameInScenario && spec.name ? spec.name : url
getName(sc, url) ==
  IF sc.aggregateByNameInScenario /\ IsStr(sc.name) THEN sc.name.str ELSE url

\* JSON.parse(text): throws on a text that is not JSON
JsonParse(text) == IF "bad" \in DOMAIN text THEN [throws |-> TRUE] ELSE [value |-> text.obj]

Counter(name, delta) == [kind |-> "counter", name |-> name, value |-> Num(delta)]
Histogram(name, value) == [kind |-> "histogram", name |-> name, value |-> value]

\* What a handler did: the ledger it leaves, the observations it sent to the
\* sink, whether its catch block logged, and whether an exception left it.
Handled(ledger, emits, logged) ==
  [ledger |-> ledger, emits |-> emits, logged |-> logged, raised |-> FALSE]

\* the exception leaves the handler
Raises(ledger) == [ledger |-> ledger, emits |-> <<>>, logged |-> FALSE, raised |-> TRUE]

\* the ledger is never consulted
LedgerHasNever(ledger, key) == FALSE

\* uniquePageLoadToTiming[timingName] is truthy: the records stored are objects
LedgerHas(ledger, key) == key \in DOMAIN ledger

LedgerPut(ledger, key, rec) ==
  [k \in DOMAIN ledger \cup {key} |-> IF k = key THEN rec ELSE ledger[k]]

\* timingName (lines 102-103)
timingName(sc, url, performanceTiming) ==
  getName(sc, url) \o JsString(Get(performanceTiming, "connectStart"))

\* the operands swapped
startToInteractiveSwapped(performanceTiming) ==
  JsMinus(Get(performanceTiming, "navigationStart"), Get(performanceTiming, "domInteractive"))

\* startToInteractive (lines 111-113)
startToInteractive(performanceTiming) ==
  JsMinus(Get(performanceTiming, "domInteractive"), Get(performanceTiming, "navigationStart"))

\* the four observations of lines 115-130
PageLoadObservations(sc, url, performanceTiming) ==
  << Counter(<<"browser.page.domcontentloaded">>, 1),
     Counter(<<"browser.page.domcontentloaded.">> \o getName(sc, url), 1),
     Histogram(<<"browser.page.dominteractive">>, startToInteractive(performanceTiming)),
     Histogram(<<"browser.page.dominteractive.">> \o getName(sc, url),
               startToInteractive(performanceTiming)) >>

\* without the try/catch of lines 97 and 131-133
DomContentLoadedResumeNoCatch(sc, ledger, url, result) ==
  IF result = Rejects THEN Raises(ledger)
  ELSE LET parsed == JsonParse(result.text) IN
    IF "throws" \in DOMAIN parsed THEN Raises(ledger)
    ELSE LET key == timingName(sc, url, parsed.value) IN
      IF LedgerHas(ledger, key) THEN Handled(ledger, <<>>, FALSE)
      ELSE Handled(LedgerPut(ledger, key, parsed.value),
                   PageLoadObservations(sc, url, parsed.value), FALSE)

\* The domcontentloaded handler from the point where the evaluation settles
\* (lines 97-133); url is pageParameter.url() at that point.
DomContentLoadedResume(sc, ledger, url, result) ==
  IF result = Rejects THEN Handled(ledger, <<>>, TRUE)
  ELSE LET parsed == JsonParse(result.text) IN
    IF "throws" \in DOMAIN parsed THEN Handled(ledger, <<>>, TRUE)
    ELSE LET key == timingName(sc, url, parsed.value) IN
      IF LedgerHas(ledger, key) THEN Handled(ledger, <<>>, FALSE)
      ELSE Handled(LedgerPut(ledger, key, parsed.value),
                   PageLoadObservations(sc, url, parsed.value), FALSE)

\* `&&` for `||`
ConsoleGateAnd(sc, url) ==
  StartsWith(url, sc.targetInScenario) /\ sc.showAllPageMetricsInScenario

\* url.startsWith(targetInScenario) || showAllPageMetricsInScenario
ConsoleGate(sc, url) ==
  StartsWith(url, sc.targetInScenario) \/ sc.showAllPageMetricsInScenario

ConsoleHandlerNoCatch(sc, ledger, message) ==
  IF message.type # "trace" THEN Handled(ledger, <<>>, FALSE)
  ELSE LET parsed == JsonParse(message.text) IN
    IF "throws" \in DOMAIN parsed THEN Raises(ledger)
    ELSE LET name == Get(parsed.value, "name")
             value == Get(parsed.value, "value")
             url == Get(parsed.value, "url")
         IN
      IF ~IsStr(url) THEN Raises(ledger)
      ELSE IF ConsoleGate(sc, url.str)
        THEN Handled(ledger,
               <<Histogram(<<"browser.page.">> \o JsString(name) \o <<".">>
                             \o getName(sc, url.str), value)>>, FALSE)
        ELSE Handled(ledger, <<>>, FALSE)

\* The console handler (lines 136-158).
ConsoleHandler(sc, ledger, message) ==
  IF message.type # "trace" THEN Handled(ledger, <<>>, FALSE)
  ELSE LET parsed == JsonParse(message.text) IN
    IF "throws" \in DOMAIN parsed THEN Handled(ledger, <<>>, TRUE)
    ELSE LET name == Get(parsed.value, "name")
             value == Get(parsed.value, "value")
             url == Get(parsed.value, "url")
         IN
      IF ~IsStr(url) THEN Handled(ledger, <<>>, TRUE)    \* TypeError, caught
      ELSE IF ConsoleGate(sc, url.str)
        THEN Handled(ledger,
               <<Histogram(<<"browser.page.">> \o JsString(name) \o <<".">>
                             \o getName(sc, url.str), value)>>, FALSE)
        ELSE Handled(ledger, <<>>, FALSE)

\* divided once: kilobytes
memoryUsedMbOnce(usedJSHeapSize) == JsDiv(usedJSHeapSize, 1000)

\* usedJSHeapSize / 1000 / 1000
memoryUsedMb(usedJSHeapSize) == JsDiv(JsDiv(usedJSHeapSize, 1000), 1000)

\* memoryUsedMb of the heap sizes the pages report, computed once
memoryUsedMbOf == [b \in HeapSizes |-> memoryUsedMb(Num(b))]

\* The load handler from the point where the evaluation settles (lines 165-178).
LoadResume(sc, ledger, result) ==
  IF result = Rejects THEN Handled(ledger, <<>>, TRUE)
  ELSE LET parsed == JsonParse(result.text) IN
    IF "throws" \in DOMAIN parsed THEN Handled(ledger, <<>>, TRUE)
    ELSE Handled(ledger,
           <<Histogram(<<"browser.memory_used_mb">>,
                       LET usedJSHeapSize == Get(parsed.value, "usedJSHeapSize") IN
                         IF IsNum(usedJSHeapSize) /\ usedJSHeapSize.int \in HeapSizes
                         THEN memoryUsedMbOf[usedJSHeapSize.int]
                         ELSE memoryUsedMb(usedJSHeapSize))>>, FALSE)

\* counted only with extended metrics
RequestFinishedHandlerGated(sc, ledger) ==
  IF sc.extendedMetricsInScenario
  THEN Handled(ledger, <<Counter(<<"browser.http_requests">>, 1)>>, FALSE)
  ELSE Handled(ledger, <<>>, FALSE)

\* The requestfinished handler (lines 185-188).
RequestFinishedHandler(sc, ledger) ==
  Handled(ledger, <<Counter(<<"browser.http_requests">>, 1)>>, FALSE)

\* ------------------------------------------------------------ state

VARIABLES
  sc,              \* the scenario closure createScenario returned
  pc,              \* where scenario() is: the await it is suspended at
  callback,        \* whether scenario() was given a callback
  initialContext,  \* the user context object
  browser,         \* "none", "open" or "closed"
  context,         \* the browser context: "none", "open" or "closed"
  page,            \* "none", "open" or "closed"
  calls,           \* the page.on, flow and close calls executed so far, in order
  cbCalls,         \* the callback's invocations: <<[error, context], ...>>
  completion,      \* what the try/catch left for after the finally block
  outcome,         \* the promise scenario() returned
  flowState,       \* the flow function: "notCalled", "running", "returned", "threw"
  errors,          \* the errors the browser, context, page and flow raised, in order
  uniquePageLoadToTiming,  \* the dedup ledger
  emitted,         \* everything sent to events.emit, in order
  inFlight,        \* handlers suspended at `await pageParameter.evaluate`
  nEvents,         \* page events delivered
  unhandled,       \* an exception left an event handler
  last,            \* the handler that ran last, its input and the sink's length before it
  pageHandlerControlVariables,  \* the module's global of lines 10-14
  sessions         \* the sessions run side by side from the scenario function

vars ==
  << sc, pc, callback, initialContext, browser, context, page, calls, cbCalls,
     completion, outcome, flowState, errors, uniquePageLoadToTiming, emitted,
     inFlight, nEvents, unhandled, last, pageHandlerControlVariables, sessions >>

Error(name) == [err |-> name]
Pending == [state |-> "pending"]
Resolved(v) == [state |-> "resolved", value |-> v]
Rejected(e) == [state |-> "rejected", error |-> e]
NoCompletion == [type |-> "none"]
Return(v) == [type |-> "return", value |-> v]
Throw(e) == [type |-> "throw", error |-> e]

UserContext(mutated) == [ref |-> "initialContext", vars |-> IF mutated THEN 1 ELSE 0]

NoHandler == [handler |-> "none"]

\* the sessions of the scenario function that run side by side
SessionIds == {1, 2}

\* a session that was not started
NoSession ==
  [ state |-> "none", uniquePageLoadToTiming |-> <<>>, emitted |-> <<>>,
    inFlight |-> 0, nEvents |-> 0, seen |-> {} ]

\* lines 38-40: the constructor writes the engine's options to the global
Globals(engine) ==
  [ aggregateByName |-> engine.aggregateByName,
    extendedMetrics |-> engine.extendedMetrics,
    showAllPageMetrics |-> engine.showAllPageMetrics ]

Init ==
  /\ \E setup \in Setups :
       /\ sc = createScenario(PlaywrightEngine(setup.script), setup.name)
       /\ pageHandlerControlVariables = Globals(PlaywrightEngine(setup.script))
  /\ pc = "idle"
  /\ callback = FALSE
  /\ initialContext = UserContext(FALSE)
  /\ browser = "none"
  /\ context = "none"
  /\ page = "none"
  /\ calls = <<>>
  /\ cbCalls = <<>>
  /\ completion = NoCompletion
  /\ outcome = Pending
  /\ flowState = "notCalled"
  /\ errors = <<>>
  /\ uniquePageLoadToTiming = <<>>
  /\ emitted = <<>>
  /\ inFlight = [domcontentloaded |-> 0, load |-> 0]
  /\ nEvents = 0
  /\ unhandled = FALSE
  /\ last = NoHandler
  /\ sessions = [s \in SessionIds |-> NoSession]

\* ------------------------------------------------------------ scenario()

sessionVars == << sc, pc, callback, initialContext, browser, context, page, calls,
                  cbCalls, completion, outcome, flowState, errors >>
handlerVars == << uniquePageLoadToTiming, emitted, inFlight, nEvents, unhandled, last >>
processVars == << pageHandlerControlVariables, sessions >>

\* callback(error, initialContext)
Invoke(calls_, error) == Append(calls_, [error |-> error, context |-> initialContext'])

\* The catch block (lines 199-205), entered with `error`; cbThrows: the
\* callback itself throws.
CatchBlock(error, cbThrows) ==
  IF callback
  THEN /\ cbCalls' = Invoke(cbCalls, error)
       /\ completion' = IF cbThrows THEN Throw(Error("CallbackError")) ELSE Return(Undef)
  ELSE /\ cbCalls' = cbCalls
       /\ completion' = Throw(error)

\* scenario(initialContext, callback) is called: lines 62-75, up to the launch
Scenario(cb) ==
  /\ pc = "idle"
  /\ pc' = "launch"
  /\ callback' = cb
  /\ emitted' = Append(emitted, [kind |-> "started"])
  /\ UNCHANGED << sc, initialContext, browser, context, page, calls, cbCalls,
                  completion, outcome, flowState, errors, uniquePageLoadToTiming,
                  inFlight, nEvents, unhandled, last >>
  /\ UNCHANGED processVars

\* chromium.launch settles (line 75)
Launch(ok) ==
  /\ pc = "launch"
  /\ IF ok
     THEN browser' = "open" /\ pc' = "newContext" /\ UNCHANGED << outcome, errors >>
     ELSE /\ browser' = browser /\ pc' = "done"
          /\ outcome' = Rejected(Error("LaunchError"))
          /\ errors' = Append(errors, Error("LaunchError"))
  /\ UNCHANGED << sc, callback, initialContext, context, page, calls, cbCalls,
                  completion, flowState >>
  /\ UNCHANGED handlerVars
  /\ UNCHANGED processVars

\* browser.newContext settles, then the two timeouts are set (lines 77-83)
NewContext(how) ==
  /\ pc = "newContext"
  /\ CASE how = "ok" ->
            /\ context' = "open" /\ pc' = "addInitScript1"
            /\ UNCHANGED << outcome, errors >>
       [] how = "newContextFails" ->
            /\ context' = context /\ pc' = "done"
            /\ outcome' = Rejected(Error("NewContextError"))
            /\ errors' = Append(errors, Error("NewContextError"))
       [] how = "setTimeoutFails" ->
            /\ context' = "open" /\ pc' = "done"
            /\ outcome' = Rejected(Error("SetTimeoutError"))
            /\ errors' = Append(errors, Error("SetTimeoutError"))
  /\ UNCHANGED << sc, callback, initialContext, browser, page, calls, cbCalls,
                  completion, flowState >>
  /\ UNCHANGED handlerVars
  /\ UNCHANGED processVars

\* context.addInitScript settles (lines 85-86)
AddInitScript(ok, cbThrows) ==
  /\ pc \in {"addInitScript1", "addInitScript2"}
  /\ initialContext' = initialContext
  /\ IF ok
     THEN /\ pc' = IF pc = "addInitScript1" THEN "addInitScript2" ELSE "newPage"
          /\ UNCHANGED << cbCalls, completion, errors >>
     ELSE /\ pc' = "contextClose"
          /\ errors' = Append(errors, Error("InitScriptError"))
          /\ CatchBlock(Error("InitScriptError"), cbThrows)
  /\ UNCHANGED << sc, callback, browser, context, page, calls, outcome, flowState >>
  /\ UNCHANGED handlerVars
  /\ UNCHANGED processVars

\* the page.on calls of lines 92, 136, 160, 181 and 185
Observers ==
  << "page.on domcontentloaded", "page.on console", "page.on load",
     "page.on pageerror", "page.on requestfinished" >>

\* the flow function is called before the observers are attached
RunThenInstrument == <<"flowFunction">> \o Observers

\* lines 92-191: the observers are attached, then the flow function is called
InstrumentThenRun == Observers \o <<"flowFunction">>

\* context.newPage settles; the five handlers are attached and the flow
\* function is called (lines 88-191)
NewPage(ok, cbThrows) ==
  /\ pc = "newPage"
  /\ initialContext' = initialContext
  /\ IF ok
     THEN /\ page' = "open"
          /\ pc' = "flow"
          /\ flowState' = "running"
          /\ calls' = calls \o InstrumentThenRun
          /\ UNCHANGED << cbCalls, completion, errors >>
     ELSE /\ page' = page
          /\ pc' = "contextClose"
          /\ flowState' = flowState
          /\ calls' = calls
          /\ errors' = Append(errors, Error("NewPageError"))
          /\ CatchBlock(Error("NewPageError"), cbThrows)
  /\ UNCHANGED << sc, callback, browser, context, outcome >>
  /\ UNCHANGED handlerVars
  /\ UNCHANGED processVars

\* the flow function settles (line 191); it may have changed the user context
Flow(throws, mutated, cbThrows) ==
  /\ pc = "flow"
  /\ initialContext' = UserContext(mutated)
  /\ IF throws
     THEN /\ pc' = "contextClose"
          /\ flowState' = "threw"
          /\ errors' = Append(errors, Error("FlowError"))
          /\ CatchBlock(Error("FlowError"), cbThrows)
     ELSE /\ pc' = "pageClose"
          /\ flowState' = "returned"
          /\ UNCHANGED << cbCalls, completion, errors >>
  /\ UNCHANGED << sc, callback, browser, context, page, calls, outcome >>
  /\ UNCHANGED handlerVars
  /\ UNCHANGED processVars

\* page.close settles (lines 193-205); cbThrows, cbThrowsAgain: the callback
\* throws when invoked the first, the second time
PageClose(ok, cbThrows, cbThrowsAgain) ==
  /\ pc = "pageClose"
  /\ pc' = "contextClose"
  /\ initialContext' = initialContext
  /\ calls' = Append(calls, "page.close")
  /\ IF ok
     THEN /\ page' = "closed"
          /\ errors' = errors
          /\ IF callback
             THEN IF cbThrows
                  THEN /\ cbCalls' = Invoke(Invoke(cbCalls, Undef), Error("CallbackError"))
                       /\ completion' = IF cbThrowsAgain
                                          THEN Throw(Error("CallbackError"))
                                          ELSE Return(Undef)
                  ELSE /\ cbCalls' = Invoke(cbCalls, Undef)
                       /\ completion' = Return(initialContext)
             ELSE /\ cbCalls' = cbCalls
                  /\ completion' = Return(initialContext)
     ELSE /\ page' = page
          /\ errors' = Append(errors, Error("PageCloseError"))
          /\ CatchBlock(Error("PageCloseError"), cbThrows)
  /\ UNCHANGED << sc, callback, browser, context, outcome, flowState >>
  /\ UNCHANGED handlerVars
  /\ UNCHANGED processVars

\* the promise settles with what the try/catch left
Settle(c) == IF c.type = "throw" THEN Rejected(c.error) ELSE Resolved(c.value)

\* context.close settles (line 207)
ContextClose(ok) ==
  /\ pc = "contextClose"
  /\ calls' = Append(calls, "context.close")
  /\ IF ok
     THEN /\ context' = "closed"
          /\ page' = IF page = "open" THEN "closed" ELSE page
          /\ pc' = "browserClose"
          /\ UNCHANGED << outcome, errors >>
     ELSE /\ UNCHANGED << context, page >>
          /\ pc' = "done"
          /\ outcome' = Rejected(Error("ContextCloseError"))
          /\ errors' = Append(errors, Error("ContextCloseError"))
  /\ UNCHANGED << sc, callback, initialContext, browser, cbCalls, completion,
                  flowState >>
  /\ UNCHANGED handlerVars
  /\ UNCHANGED processVars

\* browser.close settles (line 208)
BrowserClose(ok) ==
  /\ pc = "browserClose"
  /\ calls' = Append(calls, "browser.close")
  /\ pc' = "done"
  /\ IF ok
     THEN browser' = "closed" /\ outcome' = Settle(completion) /\ errors' = errors
     ELSE /\ browser' = browser
          /\ outcome' = Rejected(Error("BrowserCloseError"))
          /\ errors' = Append(errors, Error("BrowserCloseError"))
  /\ UNCHANGED << sc, callback, initialContext, context, page, cbCalls, completion,
                  flowState >>
  /\ UNCHANGED handlerVars
  /\ UNCHANGED processVars

\* ------------------------------------------------------------ page events

\* The page delivers events from the moment the handlers are attached until
\* it is closed.
Delivering == page = "open" /\ pc # "done" /\ nEvents < MaxEvents

\* What an evaluation in the page can do when it settles: once the page is
\* gone it rejects.
Settles(results) == IF page = "open" THEN results ELSE {Rejects}

Ran(handler, step, input) ==
  [handler |-> handler, step |-> step, input |-> input, before |-> Len(emitted)]

Apply(h) ==
  /\ uniquePageLoadToTiming' = h.ledger
  /\ emitted' = emitted \o h.emits
  /\ unhandled' = (unhandled \/ h.raised)

\* without the gate of lines 93-95
DomContentLoadedUngated ==
  /\ Delivering
  /\ nEvents' = nEvents + 1
  /\ inFlight' = [inFlight EXCEPT !.domcontentloaded = @ + 1]
  /\ Apply(Handled(uniquePageLoadToTiming, <<>>, FALSE))
  /\ last' = Ran("domcontentloaded", "fired", Undef)
  /\ UNCHANGED sessionVars
  /\ UNCHANGED processVars

\* "domcontentloaded" fires: lines 92-98, up to the await
DomContentLoaded ==
  /\ Delivering
  /\ nEvents' = nEvents + 1
  /\ inFlight' = IF sc.extendedMetricsInScenario
                   THEN [inFlight EXCEPT !.domcontentloaded = @ + 1]
                   ELSE inFlight
  /\ Apply(Handled(uniquePageLoadToTiming, <<>>, FALSE))
  /\ last' = Ran("domcontentloaded", "fired", Undef)
  /\ UNCHANGED sessionVars
  /\ UNCHANGED processVars

\* a suspended "domcontentloaded" handler continues: lines 98-133
DomContentLoadedSettles(url, result) ==
  /\ inFlight.domcontentloaded > 0
  /\ result \in Settles(TimingResults)
  /\ inFlight' = [inFlight EXCEPT !.domcontentloaded = @ - 1]
  /\ LET h == DomContentLoadedResume(sc, uniquePageLoadToTiming, url, result) IN
       /\ Apply(h)
       /\ last' = Ran("domcontentloaded", "settled", [url |-> url, result |-> result])
  /\ UNCHANGED nEvents
  /\ UNCHANGED sessionVars
  /\ UNCHANGED processVars

\* "console" fires: lines 136-158
Console(message) ==
  /\ Delivering
  /\ nEvents' = nEvents + 1
  /\ LET h == ConsoleHandler(sc, uniquePageLoadToTiming, message) IN
       /\ Apply(h)
       /\ last' = Ran("console", "fired", message)
  /\ UNCHANGED inFlight
  /\ UNCHANGED sessionVars
  /\ UNCHANGED processVars

\* "load" fires: lines 160-169, up to the await
Load ==
  /\ Delivering
  /\ nEvents' = nEvents + 1
  /\ inFlight' = IF sc.extendedMetricsInScenario
                   THEN [inFlight EXCEPT !.load = @ + 1]
                   ELSE inFlight
  /\ Apply(Handled(uniquePageLoadToTiming, <<>>, FALSE))
  /\ last' = Ran("load", "fired", Undef)
  /\ UNCHANGED sessionVars
  /\ UNCHANGED processVars

\* a suspended "load" handler continues: lines 168-178
LoadSettles(result) ==
  /\ inFlight.load > 0
  /\ result \in Settles(HeapResults)
  /\ inFlight' = [inFlight EXCEPT !.load = @ - 1]
  /\ LET h == LoadResume(sc, uniquePageLoadToTiming, result) IN
       /\ Apply(h)
       /\ last' = Ran("load", "settled", result)
  /\ UNCHANGED nEvents
  /\ UNCHANGED sessionVars
  /\ UNCHANGED processVars

\* "pageerror" fires: lines 181-184, two debug lines
PageError ==
  /\ Delivering
  /\ nEvents' = nEvents + 1
  /\ Apply(Handled(uniquePageLoadToTiming, <<>>, FALSE))
  /\ last' = Ran("pageerror", "fired", Undef)
  /\ UNCHANGED inFlight
  /\ UNCHANGED sessionVars
  /\ UNCHANGED processVars

\* "requestfinished" fires: lines 185-188
RequestFinished ==
  /\ Delivering
  /\ nEvents' = nEvents + 1
  /\ LET h == RequestFinishedHandler(sc, uniquePageLoadToTiming) IN
       /\ Apply(h)
       /\ last' = Ran("requestfinished", "fired", Undef)
  /\ UNCHANGED inFlight
  /\ UNCHANGED sessionVars
  /\ UNCHANGED processVars

\* ------------------------------------------------------------ specification

Next ==
  \/ \E cb \in BOOLEAN : Scenario(cb)
  \/ \E ok \in BOOLEAN : Launch(ok)
  \/ \E how \in {"ok", "newContextFails", "setTimeoutFails"} : NewContext(how)
  \/ \E ok, cbThrows \in BOOLEAN : AddInitScript(ok, cbThrows)
  \/ \E ok, cbThrows \in BOOLEAN : NewPage(ok, cbThrows)
  \/ \E throws, mutated, cbThrows \in BOOLEAN : Flow(throws, mutated, cbThrows)
  \/ \E ok, cbThrows, cbThrowsAgain \in BOOLEAN : PageClose(ok, cbThrows, cbThrowsAgain)
  \/ \E ok \in BOOLEAN : ContextClose(ok)
  \/ \E ok \in BOOLEAN : BrowserClose(ok)
  \/ DomContentLoaded
  \/ \E url \in Urls, result \in TimingResults : DomContentLoadedSettles(url, result)
  \/ \E message \in ConsoleMessages : Console(message)
  \/ Load
  \/ \E result \in HeapResults : LoadSettles(result)
  \/ PageError
  \/ RequestFinished

Spec == Init /\ [][Next]_vars

\* ------------------------------------------------------------ sessions side by side

\* Page events delivered in the sessions run side by side, all together.
MaxSessionEvents == 3

\* the options of the engines constructed later: all off, all on
LaterScripts == {Script(Undef, Undef, Undef), Script(JsTrue, JsTrue, JsTrue)}

\* what the evaluations of these sessions' pages resolve to
SessionTimingResults == {Rejects, Resolves(JsonOf(TimingA)), Resolves(JsonOf(TimingB))}
SessionConsoleMessages == {[type |-> "trace", text |-> JsonOf(r)] : r \in FullReports}

\* the handlers read the module's global
InPageHandlerControlVariables ==
  [ sc EXCEPT !.aggregateByNameInScenario = pageHandlerControlVariables.aggregateByName,
              !.extendedMetricsInScenario = pageHandlerControlVariables.extendedMetrics,
              !.showAllPageMetricsInScenario = pageHandlerControlVariables.showAllPageMetrics ]

\* the handlers read the constants createScenario copied (lines 49-56)
InScenario == sc

\* one ledger for all the sessions of the scenario function
LedgerOfScenario(session) == 1

\* line 83 is inside scenario(): every invocation has a ledger of its own
LedgerOf(session) == session

oneSessionVars ==
  << pc, callback, initialContext, browser, context, page, calls, cbCalls, completion,
     outcome, flowState, errors, uniquePageLoadToTiming, emitted, inFlight, nEvents,
     unhandled >>

RanIn(session, handler, step, input) ==
  [ session |-> session, handler |-> handler, step |-> step, input |-> input,
    before |-> Len(sessions[session].emitted) ]

Ledger(session) == sessions[LedgerOf(session)].uniquePageLoadToTiming

\* new PlaywrightEngine(script): lines 38-40 rewrite the global
Construct(script) ==
  /\ pageHandlerControlVariables' = Globals(PlaywrightEngine(script))
  /\ pageHandlerControlVariables' # pageHandlerControlVariables
  /\ UNCHANGED << sc, sessions, last >>
  /\ UNCHANGED oneSessionVars

\* scenario() is invoked once more and comes to run its flow (lines 62-191)
ScenarioStarts(session) ==
  /\ sessions[session].state = "none"
  /\ sessions' =
       [ s \in SessionIds |->
           LET own == IF s = session THEN [sessions[s] EXCEPT !.state = "running"]
                                     ELSE sessions[s]
           IN  IF s = LedgerOf(session)
               THEN [own EXCEPT !.uniquePageLoadToTiming = <<>>]
               ELSE own ]
  /\ last' = NoHandler
  /\ UNCHANGED << sc, pageHandlerControlVariables >>
  /\ UNCHANGED oneSessionVars

\* the flow of the session settles and the session is closed (lines 191-209)
ScenarioEnds(session) ==
  /\ sessions[session].state = "running"
  /\ sessions' = [sessions EXCEPT ![session].state = "ended"]
  /\ last' = NoHandler
  /\ UNCHANGED << sc, pageHandlerControlVariables >>
  /\ UNCHANGED oneSessionVars

RECURSIVE Delivered(_)
Delivered(ids) ==
  IF ids = {} THEN 0
  ELSE LET s == CHOOSE s \in ids : TRUE IN sessions[s].nEvents + Delivered(ids \ {s})

DeliveringIn(session) ==
  /\ sessions[session].state = "running"
  /\ Delivered(SessionIds) < MaxSessionEvents

\* "domcontentloaded" fires in the session: lines 92-98, up to the await
DomContentLoadedIn(session) ==
  /\ DeliveringIn(session)
  /\ sessions' =
       [ sessions EXCEPT ![session].nEvents = @ + 1,
                         ![session].inFlight =
                            IF InScenario.extendedMetricsInScenario THEN @ + 1 ELSE @ ]
  /\ last' = RanIn(session, "domcontentloaded", "fired", Undef)
  /\ UNCHANGED << sc, pageHandlerControlVariables >>
  /\ UNCHANGED oneSessionVars

\* a suspended "domcontentloaded" handler of the session continues: lines 98-133
DomContentLoadedSettlesIn(session, url, result) ==
  /\ sessions[session].inFlight > 0
  /\ result \in IF sessions[session].state = "running" THEN SessionTimingResults
                                                       ELSE {Rejects}
  /\ LET h == DomContentLoadedResume(InScenario, Ledger(session), url, result)
         key == IF result = Rejects THEN {}
                ELSE {timingName(InScenario, url, result.text.obj)}
         settled == [sessions EXCEPT ![session].inFlight = @ - 1]
     IN  sessions' =
           [ s \in SessionIds |->
               LET own == IF s = session
                          THEN [ settled[s] EXCEPT !.emitted = @ \o h.emits,
                                                   !.seen = @ \cup key ]
                          ELSE settled[s]
               IN  IF s = LedgerOf(session)
                   THEN [own EXCEPT !.uniquePageLoadToTiming = h.ledger]
                   ELSE own ]
  /\ last' = RanIn(session, "domcontentloaded", "settled", [url |-> url, result |-> result])
  /\ UNCHANGED << sc, pageHandlerControlVariables >>
  /\ UNCHANGED oneSessionVars

\* "console" fires in the session: lines 136-158
ConsoleIn(session, message) ==
  /\ DeliveringIn(session)
  /\ LET h == ConsoleHandler(InScenario, Ledger(session), message) IN
       sessions' = [ sessions EXCEPT ![session].nEvents = @ + 1,
                                     ![session].emitted = @ \o h.emits ]
  /\ last' = RanIn(session, "console", "fired", message)
  /\ UNCHANGED << sc, pageHandlerControlVariables >>
  /\ UNCHANGED oneSessionVars

SessionsNext ==
  \/ \E script \in LaterScripts : Construct(script)
  \/ \E session \in SessionIds : ScenarioStarts(session)
  \/ \E session \in SessionIds : ScenarioEnds(session)
  \/ \E session \in SessionIds : DomContentLoadedIn(session)
  \/ \E session \in SessionIds, url \in Urls, result \in SessionTimingResults :
       DomContentLoadedSettlesIn(session, url, result)
  \/ \E session \in SessionIds, message \in SessionConsoleMessages :
       ConsoleIn(session, message)

Sessions == Init /\ [][SessionsNext]_vars

\* ------------------------------------------------------------ properties

Done == pc = "done"

\* what the handler that ran last sent to the sink
LastEmits == SubSeq(emitted, last.before + 1, Len(emitted))

CalledBackWith(error) ==
  \E i \in 1..Len(cbCalls) : cbCalls[i] = [error |-> error, context |-> initialContext]

ClosedInOrder ==
  \E i, j \in 1..Len(calls) :
    i < j /\ calls[i] = "context.close" /\ calls[j] = "browser.close"

\* C1: when the flow function throws, the callback (if one was given) receives
\* a defined error and the user context that was passed in, and context.close
\* and then browser.close are both executed, callback or not.
C1_FlowThrowIsReportedAndClosed ==
  (Done /\ flowState = "threw") =>
    /\ callback => CalledBackWith(Error("FlowError"))
    /\ ClosedInOrder

\* C2: the entry contract.  On success callback(undefined, context) is invoked
\* if a callback was given, else the context is returned; on failure
\* callback(error, context) is invoked if a callback was given, else the
\* promise rejects.
C2_EntryContract ==
  Done =>
    IF errors = <<>>
    THEN IF callback THEN CalledBackWith(Undef) ELSE outcome = Resolved(initialContext)
    ELSE IF callback THEN CalledBackWith(errors[1]) ELSE outcome.state = "rejected"

\* C6: no session ends with an acquired browser or context unreleased.
C6_ReleasedOnEveryExit ==
  Done => browser \in {"none", "closed"} /\ context \in {"none", "closed"}

ResourceErrors ==
  { Error("LaunchError"), Error("NewContextError"), Error("ContextCloseError"),
    Error("BrowserCloseError") }

\* C7: a session that hit a resource error reports it through callback(error,
\* context) when a callback was given and through rejection otherwise, and is
\* never reported as successful.
C7_ResourceErrorsReported ==
  Done =>
    \A i \in 1..Len(errors) :
      errors[i] \in ResourceErrors =>
        /\ IF callback THEN CalledBackWith(errors[i]) ELSE outcome.state = "rejected"
        /\ ~CalledBackWith(Undef)

\* ---- page-load dedup

\* the "domcontentloaded" handler ran last, and its evaluation gave a record
TimingSettled ==
  /\ last.handler = "domcontentloaded"
  /\ last.step = "settled"
  /\ last.input.result # Rejects
  /\ last.input.result.text # BadJson

LastTiming == last.input.result.text.obj

\* observations whose name starts with the literal `family`
Emitted(family) ==
  {i \in 1..Len(emitted) : "name" \in DOMAIN emitted[i] /\ emitted[i].name[1] = family}

PageLoadFamilies ==
  { "browser.page.domcontentloaded", "browser.page.domcontentloaded.",
    "browser.page.dominteractive", "browser.page.dominteractive." }

\* every key a handler computed is in the ledger, and each of the four
\* page-load observations was emitted as often as the ledger has keys
OncePerKey ==
  /\ \A family \in PageLoadFamilies :
       Cardinality(Emitted(family)) = Cardinality(DOMAIN uniquePageLoadToTiming)
  /\ TimingSettled =>
       /\ timingName(sc, last.input.url, LastTiming) \in DOMAIN uniquePageLoadToTiming
       /\ Len(LastEmits) \in {0, 4}

\* a recorded key keeps its record
InsertedOnce ==
  \A key \in DOMAIN uniquePageLoadToTiming :
    /\ key \in DOMAIN uniquePageLoadToTiming'
    /\ uniquePageLoadToTiming'[key] = uniquePageLoadToTiming[key]

\* C3: however many domcontentloaded handlers resolve to one timing identity
\* key, and however they interleave, the page-load counters and histograms
\* are emitted once per key: a key is inserted into the ledger at most once,
\* and an occurrence of a recorded key emits nothing.
C3_EmittedOncePerKey == []OncePerKey /\ [][InsertedOnce]_vars

\* a second occurrence of a recorded key ran and emitted nothing
C3_Witness ==
  /\ TimingSettled
  /\ LastEmits = <<>>
  /\ Cardinality(DOMAIN uniquePageLoadToTiming) = 1
  /\ Cardinality(Emitted("browser.page.domcontentloaded")) = 1
  /\ nEvents = 2

\* ---- naming policy

NameDeclared == sc.name # Undef

\* the name the policy is said to give
ResolvedName(url) ==
  IF sc.aggregateByNameInScenario /\ NameDeclared THEN sc.name.str ELSE url

\* C4: getName(url) is the scenario's name for every URL when aggregation by
\* name is on and a name was declared, and the URL unchanged in every other
\* case; so the metric names of two distinct URLs differ when aggregation is
\* off and are the same when it is on with a declared name.
C4_NamingPolicy ==
  /\ \A url \in Urls : getName(sc, url) = ResolvedName(url)
  /\ \A u1, u2 \in Urls :
       LET n1 == <<"browser.page.domcontentloaded.">> \o getName(sc, u1)
           n2 == <<"browser.page.domcontentloaded.">> \o getName(sc, u2)
       IN  /\ (u1 # u2 /\ ~sc.aggregateByNameInScenario) => n1 # n2
           /\ (sc.aggregateByNameInScenario /\ NameDeclared) => n1 = n2
  /\ (TimingSettled /\ LastEmits # <<>>) =>
       LastEmits[2].name = <<"browser.page.domcontentloaded.">> \o ResolvedName(last.input.url)

\* a page load was recorded under the scenario's name, not its URL
C4_Witness ==
  /\ TimingSettled
  /\ LastEmits # <<>>
  /\ sc.aggregateByNameInScenario
  /\ NameDeclared
  /\ last.input.url # ScenarioName
  /\ LastEmits[2].name = <<"browser.page.domcontentloaded.">> \o ScenarioName

\* ---- console metrics

ConsoleRan == last.handler = "console"

\* the message decodes to a report {name, value, url}
Decoded(message) ==
  /\ message.text # BadJson
  /\ {"name", "value", "url"} \subseteq DOMAIN message.text.obj

\* C5: a decoded console "trace" report gives exactly one histogram
\* browser.page.<metricName>.<resolveName(url)> when its url starts with the
\* target or showAllPageMetrics is set, and nothing otherwise, whatever was
\* emitted before (no deduplication); a message that is not a "trace" gives
\* nothing.
C5_EmissionGate ==
  ConsoleRan =>
    LET message == last.input IN
      /\ message.type # "trace" => LastEmits = <<>>
      /\ (message.type = "trace" /\ Decoded(message)) =>
           LET report == message.text.obj IN
             IF StartsWith(report.url.str, Target) \/ sc.showAllPageMetricsInScenario
             THEN LastEmits =
                    << [ kind |-> "histogram",
                         name |-> <<"browser.page.">> \o report.name.str \o <<".">>
                                    \o getName(sc, report.url.str),
                         value |-> report.value ] >>
             ELSE LastEmits = <<>>

\* a report of a page that is not of the target passed the gate by the
\* override, a second time with the same content, and was emitted again
C5_Witness ==
  /\ ConsoleRan
  /\ last.input.type = "trace"
  /\ Decoded(last.input)
  /\ ~StartsWith(last.input.text.obj.url.str, Target)
  /\ Len(LastEmits) = 1
  /\ \E i \in 1..last.before : emitted[i] = LastEmits[1]

MalformedTraceRan ==
  /\ ConsoleRan
  /\ last.input.type = "trace"
  /\ last.input.text = BadJson

\* no exception has left a handler, and a malformed trace message emitted nothing
Contained ==
  /\ ~unhandled
  /\ MalformedTraceRan => LastEmits = <<>>

\* the handler of a malformed trace message leaves the scenario, the sink and
\* the ledger as they were
MalformedTraceChangesNothing ==
  (nEvents' = nEvents + 1 /\ MalformedTraceRan') =>
    /\ UNCHANGED sessionVars
    /\ UNCHANGED << emitted, uniquePageLoadToTiming, inFlight, unhandled >>

\* C8: a console "trace" message whose text is not JSON never raises out of
\* the handler, emits nothing, and leaves the session and its outcome as
\* they would be without the message.
C8_MalformedTraceContained == []Contained /\ [][MalformedTraceChangesNothing]_vars

\* a malformed trace message was the last thing a handler saw, and the
\* session went on to end successfully
C8_Witness ==
  /\ MalformedTraceRan
  /\ Done
  /\ errors = <<>>
  /\ IF callback THEN cbCalls = <<[error |-> Undef, context |-> initialContext]>>
                 ELSE outcome = Resolved(initialContext)

\* ---- page-load observations

WellFormed(timing) ==
  {"navigationStart", "connectStart", "domInteractive"} \subseteq DOMAIN timing

\* C9: the first recording of a timing identity key emits exactly four
\* observations: the counter browser.page.domcontentloaded and its
\* name-qualified variant, both with delta 1, and the histogram
\* browser.page.dominteractive and its name-qualified variant, both with
\* domInteractive - navigationStart.
C9_FourObservations ==
  (TimingSettled /\ LastEmits # <<>> /\ WellFormed(LastTiming)) =>
    LET name == getName(sc, last.input.url)
        value == [int |-> LastTiming.domInteractive.int - LastTiming.navigationStart.int]
    IN  LastEmits =
          << [kind |-> "counter", name |-> <<"browser.page.domcontentloaded">>,
              value |-> Num(1)],
             [kind |-> "counter", name |-> <<"browser.page.domcontentloaded.">> \o name,
              value |-> Num(1)],
             [kind |-> "histogram", name |-> <<"browser.page.dominteractive">>,
              value |-> value],
             [kind |-> "histogram", name |-> <<"browser.page.dominteractive.">> \o name,
              value |-> value] >>

\* navigationStart = 100 and domInteractive = 180 gave 80
C9_Witness ==
  /\ TimingSettled
  /\ LastTiming = TimingA
  /\ Len(LastEmits) = 4
  /\ LastEmits[3].value = Num(80)
  /\ LastEmits[4].value = Num(80)

\* ---- heap samples

HeapSettled ==
  /\ last.handler = "load"
  /\ last.step = "settled"
  /\ last.input # Rejects
  /\ last.input.text # BadJson
  /\ "usedJSHeapSize" \in DOMAIN last.input.text.obj

\* bytes / 1 000 000, and bytes / 1000 / 1000, in doubles
OneDivision == [b \in HeapSizes |-> JsDiv(Num(b), 1000000)]
TwoDivisions == [b \in HeapSizes |-> JsDiv(JsDiv(Num(b), 1000), 1000)]

\* C10 as stated: the sample is usedJSHeapSize / 1 000 000, the quotient of
\* one division.
C10_OneDivision ==
  HeapSettled =>
    LastEmits = << [kind |-> "histogram", name |-> <<"browser.memory_used_mb">>,
                    value |-> OneDivision[last.input.text.obj.usedJSHeapSize.int]] >>

\* C10 (amended): a load event whose heap evaluation gave a sample emits
\* exactly one histogram browser.memory_used_mb, whatever was emitted
\* before; its value is usedJSHeapSize / 1000 / 1000, the quotient of two
\* divisions each rounded to a double, which is 52 for 52 000 000 bytes.
C10_MemoryUsedMb ==
  HeapSettled =>
    LET bytes == last.input.text.obj.usedJSHeapSize.int IN
      /\ sc.extendedMetricsInScenario
      /\ LastEmits = << [kind |-> "histogram", name |-> <<"browser.memory_used_mb">>,
                         value |-> TwoDivisions[bytes]] >>
      /\ bytes = 52000000 => LastEmits[1].value = Num(52)

\* two load events of 52 000 000 bytes gave two samples of 52
C10_Witness ==
  /\ HeapSettled
  /\ LastEmits # <<>>
  /\ LastEmits[1].value = Num(52)
  /\ \E i \in 1..last.before : emitted[i] = LastEmits[1]

\* ---- request counting

\* this step delivers a "requestfinished" event
RequestFinishedDelivered == nEvents' = nEvents + 1 /\ last'.handler = "requestfinished"

HttpRequests(sink) ==
  Cardinality({i \in 1..Len(sink) : sink[i] = Counter(<<"browser.http_requests">>, 1)})

\* a delivered "requestfinished" event appends one counter browser.http_requests
\* of 1 to the sink and nothing else; no other step adds or removes one
CountsRequests ==
  IF RequestFinishedDelivered
  THEN emitted' = Append(emitted, Counter(<<"browser.http_requests">>, 1))
  ELSE HttpRequests(emitted') = HttpRequests(emitted)

\* C11: every requestfinished event emits the counter browser.http_requests
\* with increment 1, whatever extendedMetrics, aggregateByName and
\* showAllPageMetrics are, so the number of browser.http_requests emissions
\* is the number of requestfinished events delivered.
C11_RequestsCounted ==
  /\ [](Cardinality(Emitted("browser.http_requests")) = HttpRequests(emitted))
  /\ [](HttpRequests(emitted) <= nEvents)
  /\ [][CountsRequests]_vars

\* two requests were counted in a session with every option off
C11_Witness ==
  /\ last.handler = "requestfinished"
  /\ HttpRequests(emitted) = 2
  /\ nEvents = 2
  /\ ~sc.extendedMetricsInScenario
  /\ ~sc.aggregateByNameInScenario
  /\ ~sc.showAllPageMetricsInScenario

\* ---- handlers and teardown

\* the flow has thrown or the session is closing or has ended
TearingDown == flowState = "threw" \/ pc \in {"contextClose", "browserClose", "done"}

\* this step is a step of an event handler
HandlerStep == nEvents' # nEvents \/ inFlight' # inFlight

\* the evaluation of the handler that ran last was rejected
EvaluationRejected ==
  /\ last.handler \in {"domcontentloaded", "load"}
  /\ last.step = "settled"
  /\ (last.handler = "domcontentloaded" => last.input.result = Rejects)
  /\ (last.handler = "load" => last.input = Rejects)

\* no exception has left a handler; a handler whose evaluation was rejected
\* emitted nothing, and the close the scenario is waiting for can execute
FailuresCaught ==
  /\ ~unhandled
  /\ EvaluationRejected => LastEmits = <<>>
  /\ (TearingDown /\ EvaluationRejected) =>
       /\ pc = "contextClose" => ENABLED ContextClose(TRUE)
       /\ pc = "browserClose" => ENABLED BrowserClose(TRUE)

\* a handler's step leaves the scenario's position, its callback invocations,
\* its result and the close calls as they were
HandlersLeaveScenario == HandlerStep => UNCHANGED sessionVars

\* C12: a domcontentloaded, console or load handler that is in flight or
\* fires while the flow has thrown or the session is closing catches its own
\* failure: it never changes the scenario's result or the callback's
\* arguments and never keeps context.close and browser.close from executing.
C12_HandlerFailuresContained == []FailuresCaught /\ [][HandlersLeaveScenario]_vars

\* the flow threw, a handler's evaluation was rejected with another handler
\* still in flight, and the session ended closed with the flow's error
\* reported once
C12_Witness ==
  /\ Done
  /\ flowState = "threw"
  /\ EvaluationRejected
  /\ inFlight.domcontentloaded + inFlight.load > 0
  /\ ClosedInOrder
  /\ browser = "closed"
  /\ callback
  /\ cbCalls = <<[error |-> Error("FlowError"), context |-> initialContext]>>
  /\ outcome = Resolved(Undef)

\* ---- incomplete records

\* C13: a timing record that is malformed or lacks navigationStart,
\* connectStart or domInteractive is discarded: none of the four page-load
\* observations is emitted for it and nothing leaves the handler.
C13_IncompleteTimingDiscarded ==
  /\ ~unhandled
  /\ (/\ last.handler = "domcontentloaded"
      /\ last.step = "settled"
      /\ (~TimingSettled \/ ~WellFormed(LastTiming))) => LastEmits = <<>>

\* C14: a console "trace" message that does not decode to a report with
\* name, value and url is dropped: no histogram is emitted for it, whatever
\* the target and showAllPageMetrics are.
C14_IncompleteReportDropped ==
  (ConsoleRan /\ last.input.type = "trace" /\ ~Decoded(last.input)) => LastEmits = <<>>

\* ---- lifecycle

\* The session's state.  The observers are attached and the flow function is
\* called with no await in between, so "instrumented" is passed within the
\* step that enters "running", and "failed" within the step that leaves it.
Lifecycle ==
  CASE pc \in {"idle", "launch", "newContext", "addInitScript1", "addInitScript2",
               "newPage"} -> "created"
    [] pc = "flow" -> "running"
    [] pc \in {"pageClose", "contextClose", "browserClose"} -> "closing"
    [] pc = "done" -> "closed"

Rank(state) ==
  CASE state = "created" -> 0
    [] state = "running" -> 2
    [] state = "closing" -> 4
    [] state = "closed" -> 5

Called(name) == {i \in 1..Len(calls) : calls[i] = name}

\* the observers are attached before the flow function is called, which is
\* called at most once, when the session starts running; page.close is
\* called only after the flow returned; browser.close only after context.close
CallOrder ==
  /\ Cardinality(Called("flowFunction")) <= 1
  /\ Called("flowFunction") # {} <=> Lifecycle \notin {"created"} /\ flowState # "notCalled"
  /\ \A j \in Called("flowFunction") :
       \A k \in 1..Len(Observers) : \E i \in Called(Observers[k]) : i < j
  /\ \A j \in Called("page.close") :
       flowState = "returned" /\ \E i \in Called("flowFunction") : i < j
  /\ \A j \in Called("browser.close") : \E i \in Called("context.close") : i < j
  /\ flowState = "running" <=> Lifecycle = "running"
  /\ flowState = "threw" => Lifecycle \in {"closing", "closed"}

\* the steps of created -> (instrumented ->) running -> (failed ->) closing
\* -> closed, and no other
ChainStep ==
  \/ Lifecycle' = Lifecycle
  \/ Lifecycle = "created" /\ Lifecycle' = "running"
  \/ Lifecycle = "running" /\ Lifecycle' = "closing"
  \/ Lifecycle = "closing" /\ Lifecycle' = "closed"

\* C15 as stated: the states advance only along created -> instrumented ->
\* running -> closing -> closed, with running -> failed -> closing on a
\* flow error.
C15_OnlyAlongTheChain == [][ChainStep]_vars

\* C15 (amended): the session's states never go backwards in the order
\* created, instrumented, running, failed, closing, closed, but a session
\* can leave "created" for "closing" or "closed" without having run; the
\* five observers are attached before the flow function is called; the
\* flow function is called at most once; page.close is called only after the
\* flow returned; context.close precedes browser.close.
C15_LifecycleOrder ==
  /\ []CallOrder
  /\ [][Rank(Lifecycle') >= Rank(Lifecycle)]_vars

\* a session that went through every state, and made every call in order
C15_Witness ==
  /\ Done
  /\ errors = <<>>
  /\ calls = Observers \o <<"flowFunction", "page.close", "context.close", "browser.close">>

\* ---- extended metrics off

\* the closure with extendedMetrics the other way
OtherExtendedMetrics == [sc EXCEPT !.extendedMetricsInScenario = ~@]

\* with extended metrics off no handler waits for an evaluation, the ledger
\* is empty and no page-load observation or heap sample was emitted; the
\* console and requestfinished handlers do the same whatever the setting is
ExtendedMetricsGate ==
  /\ ~sc.extendedMetricsInScenario =>
       /\ inFlight = [domcontentloaded |-> 0, load |-> 0]
       /\ uniquePageLoadToTiming = <<>>
       /\ \A family \in PageLoadFamilies \cup {"browser.memory_used_mb"} :
            Emitted(family) = {}
  /\ \A message \in ConsoleMessages :
       ConsoleHandler(sc, uniquePageLoadToTiming, message)
         = ConsoleHandler(OtherExtendedMetrics, uniquePageLoadToTiming, message)
  /\ RequestFinishedHandler(sc, uniquePageLoadToTiming)
       = RequestFinishedHandler(OtherExtendedMetrics, uniquePageLoadToTiming)

\* with extended metrics off a domcontentloaded or load event changes
\* neither the sink nor the ledger
GatedEventsChangeNothing ==
  (/\ ~sc.extendedMetricsInScenario
   /\ nEvents' = nEvents + 1
   /\ last'.handler \in {"domcontentloaded", "load"}) =>
    UNCHANGED << emitted, uniquePageLoadToTiming, inFlight >>

\* C16: when extended metrics are not enabled, domcontentloaded and load
\* events emit nothing and leave the ledger unchanged, for any sequence of
\* events; request counting and console trace metrics do not depend on the
\* setting.
C16_ExtendedMetricsOff == []ExtendedMetricsGate /\ [][GatedEventsChangeNothing]_vars

\* with extended metrics off, a console metric and then a load event: the
\* metric is all there is in the sink
C16_Witness ==
  /\ ~sc.extendedMetricsInScenario
  /\ last.handler = "load"
  /\ nEvents = 2
  /\ Len(emitted) = 2
  /\ emitted[2].kind = "histogram"

\* ---- the callback

\* C19: the callback is invoked at most once, and never with a success
\* result (undefined error) and then with an error, on any path, including
\* page.close failing after the flow succeeded and the callback throwing.
C19_CalledBackAtMostOnce ==
  /\ Len(cbCalls) <= 1
  /\ \A i, j \in 1..Len(cbCalls) :
       (i < j /\ cbCalls[i].error = Undef) => cbCalls[j].error = Undef

\* ---- the timing identity key

\* C20: the timing identity key is injective: a page load is suppressed as a
\* duplicate only when its connectStart (and resolved name) are those of the
\* load recorded under its key.
C20_KeyInjective ==
  (TimingSettled /\ LastEmits = <<>>) =>
    LET key == timingName(sc, last.input.url, LastTiming) IN
      Get(uniquePageLoadToTiming[key], "connectStart") = Get(LastTiming, "connectStart")

\* ---- sessions side by side

EmittedIn(session, family) ==
  {i \in 1..Len(sessions[session].emitted) : sessions[session].emitted[i].name[1] = family}

\* C17: the ledger is per session: of two sessions started from the same
\* scenario function, run concurrently or one after the other, each records
\* in its own ledger the keys its own handlers computed, and each emits the
\* four page-load observations once for each of them, whatever the other
\* session recorded.
C17_LedgerPerSession ==
  \A session \in SessionIds :
    /\ DOMAIN sessions[session].uniquePageLoadToTiming = sessions[session].seen
    /\ \A family \in PageLoadFamilies :
         Cardinality(EmittedIn(session, family)) = Cardinality(sessions[session].seen)

\* two sessions running at once have each recorded and emitted the same key
C17_Witness ==
  /\ \A session \in SessionIds :
       /\ sessions[session].state = "running"
       /\ Len(sessions[session].emitted) = 4
       /\ Cardinality(sessions[session].seen) = 1
  /\ sessions[1].seen = sessions[2].seen

\* what a handler step of `session` does according to the options the
\* scenario function was created with
AsCreated(session) ==
  LET before == sessions[session]
      after == sessions'[session]
      input == last'.input
  IN  CASE last'.handler = "domcontentloaded" /\ last'.step = "fired" ->
             /\ after.emitted = before.emitted
             /\ after.inFlight =
                  before.inFlight + (IF sc.extendedMetricsInScenario THEN 1 ELSE 0)
        [] last'.handler = "domcontentloaded" /\ last'.step = "settled" ->
             IF input.result = Rejects THEN after.emitted = before.emitted
             ELSE LET timing == input.result.text.obj
                      name == ResolvedName(input.url)
                      key == name \o JsString(timing.connectStart)
                  IN  /\ key \in DOMAIN after.uniquePageLoadToTiming
                      /\ IF key \in DOMAIN before.uniquePageLoadToTiming
                         THEN after.emitted = before.emitted
                         ELSE /\ Len(after.emitted) = Len(before.emitted) + 4
                              /\ after.emitted[Len(before.emitted) + 2].name
                                   = <<"browser.page.domcontentloaded.">> \o name
                              /\ after.emitted[Len(before.emitted) + 4].name
                                   = <<"browser.page.dominteractive.">> \o name
        [] last'.handler = "console" ->
             LET report == input.text.obj IN
               IF StartsWith(report.url.str, Target) \/ sc.showAllPageMetricsInScenario
               THEN after.emitted =
                      Append(before.emitted,
                             [ kind |-> "histogram",
                               name |-> <<"browser.page.">> \o report.name.str \o <<".">>
                                          \o ResolvedName(report.url.str),
                               value |-> report.value ])
               ELSE after.emitted = before.emitted

\* the closure's copies never change, and every handler step of a session
\* is the one they determine
ConfiguredAtCreation ==
  /\ sc' = sc
  /\ \A session \in SessionIds :
       (/\ sessions'[session] # sessions[session]
        /\ last'.handler # "none"
        /\ last'.session = session) => AsCreated(session)

\* C18: once createScenario has returned the scenario function, constructing
\* another engine with other options, which rewrites the global
\* pageHandlerControlVariables, before or during a session, changes neither
\* the names nor the gating nor the deduplication of the sessions run from
\* that scenario function.
C18_ConfigurationImmutable == [][ConfiguredAtCreation]_vars

\* an engine with every option off was constructed after the scenario
\* function was created with every option on, and a session recorded a page
\* load under the scenario's name
C18_Witness ==
  /\ sc.aggregateByNameInScenario
  /\ sc.extendedMetricsInScenario
  /\ NameDeclared
  /\ pageHandlerControlVariables =
       [aggregateByName |-> FALSE, extendedMetrics |-> FALSE, showAllPageMetrics |-> FALSE]
  /\ last.handler = "domcontentloaded"
  /\ last.step = "settled"
  /\ Len(sessions[last.session].emitted) = last.before + 4
  /\ sessions[last.session].emitted[last.before + 2].name
       = <<"browser.page.domcontentloaded.">> \o ScenarioName

====
